---- MODULE Spec2Model ----
(***************************************************************************)
(* The Owl badguy of src/badguy/owl.cpp as a state machine.                *)
(*                                                                         *)
(* The fields of the Owl object (and of the Physic object it configures)   *)
(* are the variables.  Every public member function is one action that     *)
(* runs the whole function body.  A body is written as the composition of  *)
(* its statements, each statement an operator on the record of the Owl's   *)
(* fields; every statement that the claims talk about appends an entry to  *)
(* `log`, the ordered list of the effects of the handler that ran last,    *)
(* each entry carrying the values of the fields right after the effect.    *)
(* `entry` keeps the fields as they were when that handler was entered.    *)
(*                                                                         *)
(* Sprite actions and sound playback have no state the Owl reads back and  *)
(* are left out.  The base class BadGuy, the Sector, the object factory    *)
(* and the Portable payload are not part of owl.cpp; what the Owl needs of *)
(* them is modelled from the specification and marked so in the map.       *)
(***************************************************************************)
EXTENDS Integers, Sequences, FiniteSets, TLC

VARIABLES
  m_dir,              \* Direction::LEFT / Direction::RIGHT
  m_frozen,           \* BadGuy::m_frozen
  m_state,            \* BadGuy state: STATE_INIT until set_state(STATE_FALLING)
  m_is_initialized,   \* BadGuy: initialize() has run
  carried_object,     \* Portable* : NULL or the id of the carried entity
  velocity_x,         \* m_physic velocity, x
  velocity_y,         \* m_physic velocity, y
  acceleration_y,     \* m_physic acceleration, y
  gravity_enabled,    \* m_physic gravity flag
  sector_objects,     \* ids of the entities registered in the Sector
  created,            \* ids of the entities the factory has ever produced
  held,               \* ids of the entities whose last Portable call was grab
  released,           \* ids of the entities on which ungrab has been called
  last_op,            \* the member function that ran last, with its arguments
  entry,              \* the Owl's fields when that function was entered
  log                 \* the ordered effects of that function

vars == <<m_dir, m_frozen, m_state, m_is_initialized, carried_object,
          velocity_x, velocity_y, acceleration_y, gravity_enabled,
          sector_objects, created, held, released, last_op, entry, log>>

-----------------------------------------------------------------------------
(* Program constants *)

FLYING_SPEED == 120

ACTIVATION_DISTANCE == 128

-----------------------------------------------------------------------------
(* Bounds of the model *)

\* half of the width of the Owl's bounding box
OwlHalfWidth == 16

\* the y coordinate of the bottom edge of the Owl's bounding box
OwlBottom == 64

\* the width of the level
LevelWidth == 320

\* the width of the player's bounding box
PlayerWidth == 32

\* the largest vertical speed the physics reaches while gravity is enabled
MaxVy == 1

-----------------------------------------------------------------------------
(* Values *)

NULL == 0

NoPlayer == [none |-> TRUE]

NoPos == <<>>

Direction == {"LEFT", "RIGHT"}

\* the x coordinates of the centre of the Owl's bounding box that the
\* collision engine may move it to: at both level edges and mid level
OwlCentres == {32, 33, LevelWidth \div 2, LevelWidth - 1, LevelWidth}

Rectf(p1x, p1y, p2x, p2y) == [p1 |-> [x |-> p1x, y |-> p1y], p2 |-> [x |-> p2x, y |-> p2y]]

OwlBBox(cx) == Rectf(cx - OwlHalfWidth, OwlBottom - 2 * OwlHalfWidth, cx + OwlHalfWidth, OwlBottom)

BBoxes == {OwlBBox(cx) : cx \in OwlCentres}

\* left edges of the player, relative to mid level: one activation distance
\* to the left, right below, one activation distance to the right
PlayerLefts ==
  {LevelWidth \div 2 + d :
     d \in {-ACTIVATION_DISTANCE - OwlHalfWidth, -OwlHalfWidth, ACTIVATION_DISTANCE - OwlHalfWidth}}

PlayerAt(px, py) == Rectf(px, py, px + PlayerWidth, py + PlayerWidth)

\* what Sector::get_nearest_player can hand back: no player, a player whose
\* top edge is on the Owl's bottom edge, and one that is just above it
Players ==
  {NoPlayer} \cup {PlayerAt(px, OwlBottom) : px \in PlayerLefts}
             \cup {PlayerAt(px, OwlBottom - 1) : px \in PlayerLefts}

\* who squishes the Owl: the player that is nearest to it, another player,
\* or an object that is no player
SquishedBy == {"nearest_player", "another_player", "not_a_player"}

\* what GameObjectFactory::create can hand back
FactoryResults == {"none", "not_portable", "portable"}

CollisionHits == [top : BOOLEAN, bottom : BOOLEAN, left : BOOLEAN, right : BOOLEAN]

-----------------------------------------------------------------------------
(* The Owl's fields as one record, and the log of a handler's effects *)

Self ==
  [m_dir |-> m_dir, m_frozen |-> m_frozen, m_state |-> m_state,
   carried_object |-> carried_object,
   velocity_x |-> velocity_x, velocity_y |-> velocity_y,
   acceleration_y |-> acceleration_y, gravity_enabled |-> gravity_enabled,
   log |-> <<>>]

Snapshot(s) ==
  [m_dir |-> s.m_dir, m_frozen |-> s.m_frozen, m_state |-> s.m_state,
   carried_object |-> s.carried_object,
   velocity_x |-> s.velocity_x, velocity_y |-> s.velocity_y,
   acceleration_y |-> s.acceleration_y, gravity_enabled |-> s.gravity_enabled]

\* append the effect `call` (on entity obj, with position pos) to the log,
\* with the fields as they are in s, that is right after the effect
Effect(s, call, obj, pos) ==
  [s EXCEPT !.log = Append(@, [call |-> call, obj |-> obj, pos |-> pos, dir |-> s.m_dir,
                               after |-> Snapshot(s)])]

-----------------------------------------------------------------------------
(* The statements the member functions are made of *)

set_velocity_x(s, v) == Effect([s EXCEPT !.velocity_x = v], "set_velocity_x", NULL, NoPos)

set_velocity_y(s, v) == Effect([s EXCEPT !.velocity_y = v], "set_velocity_y", NULL, NoPos)

set_acceleration_y(s, a) == Effect([s EXCEPT !.acceleration_y = a], "set_acceleration_y", NULL, NoPos)

enable_gravity(s, b) == Effect([s EXCEPT !.gravity_enabled = b], "enable_gravity", NULL, NoPos)

set_state(s, st) == Effect([s EXCEPT !.m_state = st], "set_state", NULL, NoPos)

set_dir(s, d) == Effect([s EXCEPT !.m_dir = d], "m_dir =", NULL, NoPos)

set_carried_object(s, o) == Effect([s EXCEPT !.carried_object = o], "carried_object =", o, NoPos)

\* carried_object->grab (*this, obj_pos, m_dir)
grab(s, obj_pos) == Effect(s, "grab", s.carried_object, <<obj_pos.x, obj_pos.y>>)

\* carried_object->ungrab (*this, m_dir)
ungrab(s) == Effect(s, "ungrab", s.carried_object, NoPos)

\* player->bounce (*this)
bounce(s) == Effect(s, "bounce", NULL, NoPos)

play_sound(s) == Effect(s, "play", NULL, NoPos)

run_dead_script(s) == Effect(s, "run_dead_script", NULL, NoPos)

\* GameObjectFactory::instance().create(...) handing back an entity
create_object(s, o) == Effect(s, "create", o, NoPos)

\* Sector::get().add_object(std::move(game_object))
add_object(s, o) == Effect(s, "add_object", o, NoPos)

\* a unique_ptr that still owns its entity goes out of scope
destroy_object(s, o) == Effect(s, "destroy", o, NoPos)

return_value(s, v) == Effect(s, IF v THEN "return true" ELSE "return false", NULL, NoPos)

-----------------------------------------------------------------------------
(* The collaborators of the Owl *)

\* BadGuy::freeze: the frozen flag
BadGuy_freeze(s) == Effect([s EXCEPT !.m_frozen = TRUE], "BadGuy::freeze", NULL, NoPos)

\* BadGuy::unfreeze: the frozen flag
BadGuy_unfreeze(s) == Effect([s EXCEPT !.m_frozen = FALSE], "BadGuy::unfreeze", NULL, NoPos)

\* BadGuy::ignite
BadGuy_ignite(s) == Effect(s, "BadGuy::ignite", NULL, NoPos)

\* BadGuy::active_update: the physics step; gravity, while enabled, makes
\* the body fall faster, up to a terminal speed
BadGuy_active_update(s) ==
  IF s.gravity_enabled /\ s.velocity_y < MaxVy
    THEN [s EXCEPT !.velocity_y = @ + 1]
    ELSE s

\* BadGuy::collision_solid: the body of a frozen actor is inert; the hit may
\* stop it along either axis, and never turns it around
BadGuy_collision_solid(s, hit, stop_x, stop_y) ==
  Effect([s EXCEPT !.velocity_x = IF stop_x THEN 0 ELSE @,
                   !.velocity_y = IF stop_y THEN 0 ELSE @],
         "BadGuy::collision_solid", NULL, NoPos)

\* get_anchor_pos(rect, ANCHOR_BOTTOM): the middle of the bottom edge
get_anchor_pos_bottom(rect) ==
  [x |-> rect.p1.x + (rect.p2.x - rect.p1.x) \div 2, y |-> rect.p2.y]

\* Sector::get().get_width()
get_width == LevelWidth

-----------------------------------------------------------------------------
(* The member functions of Owl *)

FlightVelocity(d) == IF d = "LEFT" THEN -FLYING_SPEED ELSE FLYING_SPEED

\* mutant of ungrab_carried: the test of the reference is missing
ungrab_carried_unguarded(s) == set_carried_object(ungrab(s), NULL)

\* if (carried_object != nullptr) { carried_object->ungrab (*this, m_dir);
\*                                  carried_object = nullptr; }
ungrab_carried(s) ==
  IF s.carried_object # NULL
    THEN set_carried_object(ungrab(s), NULL)
    ELSE s

\* mutant of initialize: the entity is handed to the sector before the cast
\* is looked at
initialize_registers_before_cast(s, editor, made, id) ==
  LET s1 == set_velocity_x(s, FlightVelocity(s.m_dir))
      s2 == enable_gravity(s1, FALSE)
  IN  IF editor THEN s2
      ELSE IF made = "none" THEN s2
      ELSE IF made = "not_portable"
        THEN add_object(set_carried_object(create_object(s2, id), NULL), id)
        ELSE add_object(set_carried_object(create_object(s2, id), id), id)

\* mutant of initialize: the carried entity is never handed to the sector
initialize_forgets_add(s, editor, made, id) ==
  LET s1 == set_velocity_x(s, FlightVelocity(s.m_dir))
      s2 == enable_gravity(s1, FALSE)
  IN  IF editor THEN s2
      ELSE IF made = "none" THEN s2
      ELSE IF made = "not_portable"
        THEN destroy_object(set_carried_object(create_object(s2, id), NULL), id)
        ELSE destroy_object(set_carried_object(create_object(s2, id), id), id)

\* mutant of initialize: no early return while the editor is active
initialize_ignores_editor(s, editor, made, id) ==
  LET s1 == set_velocity_x(s, FlightVelocity(s.m_dir))
      s2 == enable_gravity(s1, FALSE)
  IN  IF made = "none" THEN s2
      ELSE IF made = "not_portable"
        THEN destroy_object(set_carried_object(create_object(s2, id), NULL), id)
        ELSE add_object(set_carried_object(create_object(s2, id), id), id)

\* Owl::initialize; editor is Editor::is_active(), made is what the factory
\* hands back and id the identity of the entity it made
initialize(s, editor, made, id) ==
  LET s1 == set_velocity_x(s, FlightVelocity(s.m_dir))
      s2 == enable_gravity(s1, FALSE)
  IN  IF editor THEN s2
      ELSE IF made = "none" THEN s2
      ELSE IF made = "not_portable"
        THEN destroy_object(set_carried_object(create_object(s2, id), NULL), id)
        ELSE add_object(set_carried_object(create_object(s2, id), id), id)

\* mutant of is_above_player: the activation offset has the sign of the
\* other direction, so that the drop comes after the Owl has passed
is_above_player_behind(bbox, dir, player) ==
  IF player = NoPlayer THEN FALSE
  ELSE LET x_offset == IF dir = "LEFT" THEN -ACTIVATION_DISTANCE ELSE ACTIVATION_DISTANCE
       IN  /\ player.p1.y >= bbox.p2.y
           /\ player.p2.x + x_offset > bbox.p1.x
           /\ player.p1.x + x_offset < bbox.p2.x

\* Owl::is_above_player
is_above_player(bbox, dir, player) ==
  IF player = NoPlayer THEN FALSE
  ELSE LET x_offset == IF dir = "LEFT" THEN ACTIVATION_DISTANCE ELSE -ACTIVATION_DISTANCE
       IN  /\ player.p1.y >= bbox.p2.y
           /\ player.p2.x + x_offset > bbox.p1.x
           /\ player.p1.x + x_offset < bbox.p2.x

\* mutant of obj_pos_of: the horizontal bias of half the object's width forgotten
obj_pos_of_unbiased(bbox) ==
  LET anchor == get_anchor_pos_bottom(bbox)
  IN  [x |-> anchor.x, y |-> anchor.y + 3]

\* the position the carried object is held at
obj_pos_of(bbox) ==
  LET anchor == get_anchor_pos_bottom(bbox)
  IN  [x |-> anchor.x - 16, y |-> anchor.y + 3]

\* mutant of at_level_edge: strict comparisons
at_level_edge_strict(obj_pos) == obj_pos.x < 16 \/ obj_pos.x + 16 > get_width

\* the test that drops the carried object before it leaves the level
at_level_edge(obj_pos) == obj_pos.x <= 16 \/ obj_pos.x + 16 >= get_width

\* mutant of active_update: the drop on the player leaves the reference set
active_update_keeps_reference(s, bbox, player) ==
  LET s1 == BadGuy_active_update(s)
  IN  IF s1.m_frozen THEN s1
      ELSE IF s1.carried_object # NULL
        THEN IF ~is_above_player(bbox, s1.m_dir, player)
               THEN IF at_level_edge(obj_pos_of(bbox))
                      THEN set_carried_object(ungrab(s1), NULL)
                      ELSE grab(s1, obj_pos_of(bbox))
               ELSE ungrab(s1)
        ELSE s1

\* mutant of active_update: the frozen Owl is not skipped
active_update_ignores_frozen(s, bbox, player) ==
  LET s1 == BadGuy_active_update(s)
  IN  IF s1.carried_object # NULL
        THEN IF ~is_above_player(bbox, s1.m_dir, player)
               THEN IF at_level_edge(obj_pos_of(bbox))
                      THEN set_carried_object(ungrab(s1), NULL)
                      ELSE grab(s1, obj_pos_of(bbox))
               ELSE set_carried_object(ungrab(s1), NULL)
        ELSE s1

\* Owl::active_update
active_update(s, bbox, player) ==
  LET s1 == BadGuy_active_update(s)
  IN  IF s1.m_frozen THEN s1
      ELSE IF s1.carried_object # NULL
        THEN IF ~is_above_player(bbox, s1.m_dir, player)
               THEN IF at_level_edge(obj_pos_of(bbox))
                      THEN set_carried_object(ungrab(s1), NULL)
                      ELSE grab(s1, obj_pos_of(bbox))
               ELSE set_carried_object(ungrab(s1), NULL)
        ELSE s1

\* mutant of kill_fall: the reference is cleared without ungrab
kill_fall_forgets_ungrab(s) ==
  LET s1 == play_sound(s)
      s2 == set_velocity_y(s1, 0)
      s3 == set_acceleration_y(s2, 0)
      s4 == enable_gravity(s3, TRUE)
      s5 == set_state(s4, "STATE_FALLING")
      s6 == IF s5.carried_object # NULL THEN set_carried_object(s5, NULL) ELSE s5
  IN  run_dead_script(s6)

\* Owl::kill_fall
kill_fall(s) ==
  LET s1 == play_sound(s)
      s2 == set_velocity_y(s1, 0)
      s3 == set_acceleration_y(s2, 0)
      s4 == enable_gravity(s3, TRUE)
      s5 == set_state(s4, "STATE_FALLING")
      s6 == ungrab_carried(s5)
  IN  run_dead_script(s6)

\* mutant of collision_squished: the reference is not cleared after ungrab,
\* so that kill_fall releases the object again
collision_squished_ungrabs_twice(s, player) ==
  LET s1 == IF player # NoPlayer THEN bounce(s) ELSE s
      s2 == IF s1.carried_object # NULL THEN ungrab(s1) ELSE s1
      s3 == kill_fall(s2)
  IN  return_value(s3, TRUE)

\* mutant of collision_squished: the release is left to kill_fall
collision_squished_releases_late(s, player) ==
  LET s1 == IF player # NoPlayer THEN bounce(s) ELSE s
      s3 == kill_fall(s1)
  IN  return_value(s3, TRUE)

\* Owl::collision_squished
collision_squished(s, player) ==
  LET s1 == IF player # NoPlayer THEN bounce(s) ELSE s
      s2 == ungrab_carried(s1)
      s3 == kill_fall(s2)
  IN  return_value(s3, TRUE)

\* mutant of freeze: gravity is enabled before the object is released
freeze_gravity_first(s) ==
  LET s1 == enable_gravity(s, TRUE)
      s2 == ungrab_carried(s1)
  IN  BadGuy_freeze(s2)

\* Owl::freeze
freeze(s) ==
  LET s1 == ungrab_carried(s)
      s2 == enable_gravity(s1, TRUE)
  IN  BadGuy_freeze(s2)

\* mutant of unfreeze: gravity is left enabled
unfreeze_keeps_gravity(s) ==
  LET s1 == BadGuy_unfreeze(s)
  IN  set_velocity_x(s1, FlightVelocity(s1.m_dir))

\* Owl::unfreeze
unfreeze(s) ==
  LET s1 == BadGuy_unfreeze(s)
      s2 == set_velocity_x(s1, FlightVelocity(s1.m_dir))
  IN  enable_gravity(s2, FALSE)

\* mutant of collision_solid: the velocity set after a turn has the old sign
collision_solid_keeps_sign(s, hit, stop_x, stop_y) ==
  IF s.m_frozen THEN BadGuy_collision_solid(s, hit, stop_x, stop_y)
  ELSE IF hit.top \/ hit.bottom THEN set_velocity_y(s, 0)
  ELSE IF hit.left \/ hit.right
    THEN IF s.m_dir = "LEFT"
           THEN set_velocity_x(set_dir(s, "RIGHT"), -FLYING_SPEED)
           ELSE set_velocity_x(set_dir(s, "LEFT"), FLYING_SPEED)
    ELSE s

\* mutant of collision_solid: the Owl turns only when hit on the side it faces
collision_solid_facing_side_only(s, hit, stop_x, stop_y) ==
  IF s.m_frozen THEN BadGuy_collision_solid(s, hit, stop_x, stop_y)
  ELSE IF hit.top \/ hit.bottom THEN set_velocity_y(s, 0)
  ELSE IF hit.left \/ hit.right
    THEN IF s.m_dir = "LEFT" /\ hit.left
           THEN set_velocity_x(set_dir(s, "RIGHT"), FLYING_SPEED)
           ELSE IF s.m_dir = "RIGHT" /\ hit.right
             THEN set_velocity_x(set_dir(s, "LEFT"), -FLYING_SPEED)
             ELSE s
    ELSE s

\* mutant of collision_solid: the lateral flags are looked at first
collision_solid_lateral_first(s, hit, stop_x, stop_y) ==
  IF s.m_frozen THEN BadGuy_collision_solid(s, hit, stop_x, stop_y)
  ELSE IF hit.left \/ hit.right
    THEN IF s.m_dir = "LEFT"
           THEN set_velocity_x(set_dir(s, "RIGHT"), FLYING_SPEED)
           ELSE set_velocity_x(set_dir(s, "LEFT"), -FLYING_SPEED)
  ELSE IF hit.top \/ hit.bottom THEN set_velocity_y(s, 0)
    ELSE s

\* Owl::collision_solid; stop_x and stop_y are what the base class does to
\* the body of a frozen Owl
collision_solid(s, hit, stop_x, stop_y) ==
  IF s.m_frozen THEN BadGuy_collision_solid(s, hit, stop_x, stop_y)
  ELSE IF hit.top \/ hit.bottom THEN set_velocity_y(s, 0)
  ELSE IF hit.left \/ hit.right
    THEN IF s.m_dir = "LEFT"
           THEN set_velocity_x(set_dir(s, "RIGHT"), FLYING_SPEED)
           ELSE set_velocity_x(set_dir(s, "LEFT"), -FLYING_SPEED)
    ELSE s

\* Owl::ignite
ignite(s) == BadGuy_ignite(ungrab_carried(s))

-----------------------------------------------------------------------------
(* The state machine *)

CallsOf(l, call) == {i \in DOMAIN l : l[i].call = call}

ObjectsOf(l, call) == {l[i].obj : i \in CallsOf(l, call)}

\* the state after member function op has run from Self and ended in r
Returned(op, r) ==
  /\ m_dir' = r.m_dir
  /\ m_frozen' = r.m_frozen
  /\ m_state' = r.m_state
  /\ carried_object' = r.carried_object
  /\ velocity_x' = r.velocity_x
  /\ velocity_y' = r.velocity_y
  /\ acceleration_y' = r.acceleration_y
  /\ gravity_enabled' = r.gravity_enabled
  /\ created' = created \cup ObjectsOf(r.log, "create")
  /\ sector_objects' = sector_objects \cup ObjectsOf(r.log, "add_object")
  /\ held' = (held \cup ObjectsOf(r.log, "grab")) \ ObjectsOf(r.log, "ungrab")
  /\ released' = released \cup ObjectsOf(r.log, "ungrab")
  /\ last_op' = op
  /\ entry' = Snapshot(Self)
  /\ log' = r.log

Init ==
  /\ m_dir \in Direction
  /\ m_frozen = FALSE
  /\ m_state = "STATE_INIT"
  /\ m_is_initialized = FALSE
  /\ carried_object = NULL
  /\ velocity_x = 0
  /\ velocity_y = 0
  /\ acceleration_y = 0
  /\ gravity_enabled = TRUE
  /\ sector_objects = {}
  /\ created = {}
  /\ held = {}
  /\ released = {}
  /\ last_op = [name |-> "Owl"]
  /\ entry = Snapshot(Self)
  /\ log = <<>>

\* BadGuy::try_activate: initialize is called the first time the Owl becomes
\* active, and never again
try_activate == ~m_is_initialized

Initialize ==
  /\ try_activate
  /\ \E editor \in BOOLEAN, made \in FactoryResults :
       LET id == Cardinality(created) + 1
           r == initialize(Self, editor, made, id)
       IN  Returned([name |-> "initialize", editor |-> editor, made |-> made], r)
  /\ m_is_initialized' = TRUE

\* a tick; the collision engine has put the Owl at bbox and the nearest
\* player at player
ActiveUpdate ==
  /\ \E bbox \in BBoxes, player \in Players :
       Returned([name |-> "active_update", bbox |-> bbox, player |-> player],
                active_update(Self, bbox, player))
  /\ UNCHANGED m_is_initialized

\* the Owl is squished by object, the GameObject& the function is handed
\* and does not look at, while the sector's nearest player is player
CollisionSquished ==
  /\ \E player \in Players, object \in SquishedBy :
       /\ (object \in {"nearest_player", "another_player"} => player # NoPlayer)
       /\ Returned([name |-> "collision_squished", player |-> player, object |-> object],
                   collision_squished(Self, player))
  /\ UNCHANGED m_is_initialized

KillFall ==
  /\ Returned([name |-> "kill_fall"], kill_fall(Self))
  /\ UNCHANGED m_is_initialized

Freeze ==
  /\ Returned([name |-> "freeze"], freeze(Self))
  /\ UNCHANGED m_is_initialized

Unfreeze ==
  /\ Returned([name |-> "unfreeze"], unfreeze(Self))
  /\ UNCHANGED m_is_initialized

CollisionSolid ==
  /\ \E hit \in CollisionHits, stop_x \in BOOLEAN, stop_y \in BOOLEAN :
       /\ (~m_frozen => ~stop_x /\ ~stop_y)
       /\ Returned([name |-> "collision_solid", hit |-> hit],
                   collision_solid(Self, hit, stop_x, stop_y))
  /\ UNCHANGED m_is_initialized

Ignite ==
  /\ Returned([name |-> "ignite"], ignite(Self))
  /\ UNCHANGED m_is_initialized

Next ==
  \/ Initialize
  \/ ActiveUpdate
  \/ CollisionSquished
  \/ KillFall
  \/ Freeze
  \/ Unfreeze
  \/ CollisionSolid
  \/ Ignite

Spec == Init /\ [][Next]_vars

-----------------------------------------------------------------------------
(* The player-below test on its own: the Owl is activated and then ticks    *)
(* in mid level, with the nearest player drawn from the positions around   *)
(* both ends of the activation window of either direction                  *)

\* left edges of the player: one activation distance to the left of the
\* Owl, below it, and one activation distance to the right, each with the
\* player's box just clear of, touching and overlapping either end of the
\* Owl's box
GeomPlayerLefts ==
  {LevelWidth \div 2 + a + e :
     a \in {-ACTIVATION_DISTANCE, 0, ACTIVATION_DISTANCE},
     e \in {-OwlHalfWidth - PlayerWidth - 1, -OwlHalfWidth - PlayerWidth,
            -OwlHalfWidth - PlayerWidth + 1, -OwlHalfWidth,
            OwlHalfWidth - 1, OwlHalfWidth, OwlHalfWidth + 1}}

GeomPlayers ==
  {NoPlayer} \cup {PlayerAt(px, py) : px \in GeomPlayerLefts,
                                      py \in {OwlBottom - 1, OwlBottom, OwlBottom + 1}}

ActiveUpdateGeom ==
  /\ \E player \in GeomPlayers :
       Returned([name |-> "active_update", bbox |-> OwlBBox(LevelWidth \div 2), player |-> player],
                active_update(Self, OwlBBox(LevelWidth \div 2), player))
  /\ UNCHANGED m_is_initialized

NextGeom ==
  \/ Initialize
  \/ ActiveUpdateGeom

SpecGeom == Init /\ [][NextGeom]_vars

-----------------------------------------------------------------------------
(* The Owl with initialize open to its callers: nothing in Owl::initialize *)
(* keeps it from being run again                                           *)

\* how many entities the factory may make for one Owl
MaxObjects == 2

Reinitialize ==
  /\ m_is_initialized
  /\ Cardinality(created) < MaxObjects
  /\ \E editor \in BOOLEAN, made \in FactoryResults :
       LET id == Cardinality(created) + 1
           r == initialize(Self, editor, made, id)
       IN  Returned([name |-> "initialize", editor |-> editor, made |-> made], r)
  /\ UNCHANGED m_is_initialized

\* every handler that reads or writes carried_object; Owl::collision_solid
\* does neither
NextReinit ==
  \/ Initialize
  \/ Reinitialize
  \/ ActiveUpdate
  \/ CollisionSquished
  \/ KillFall
  \/ Freeze
  \/ Unfreeze
  \/ Ignite

SpecReinit == Init /\ [][NextReinit]_vars

-----------------------------------------------------------------------------
(* Reading the log of the handler that ran last *)

Ran(name) == last_op.name = name

Count(call) == Cardinality(CallsOf(log, call))

\* every effect `first` of the log comes before every effect `then`
Before(first, then) == \A i \in CallsOf(log, first), j \in CallsOf(log, then) : i < j

Opposite(d) == IF d = "LEFT" THEN "RIGHT" ELSE "LEFT"

\* the last handler was a tick of a flying Owl that held an object
CarryingTick == Ran("active_update") /\ ~entry.m_frozen /\ entry.carried_object # NULL

PlayerBelow == is_above_player(last_op.bbox, entry.m_dir, last_op.player)

\* the x coordinate of the middle of the bottom edge of the Owl, minus 16
AnchorX == (last_op.bbox.p1.x + last_op.bbox.p2.x) \div 2 - 16

\* the handler released the object held at entry: one ungrab, on that
\* object, then the reference cleared, and no grab
ReleasedOnce ==
  /\ Count("ungrab") = 1
  /\ Count("grab") = 0
  /\ ObjectsOf(log, "ungrab") = {entry.carried_object}
  /\ \E i \in CallsOf(log, "carried_object =") :
       log[i].obj = NULL /\ \A j \in CallsOf(log, "ungrab") : j < i
  /\ carried_object = NULL

-----------------------------------------------------------------------------
(* C1 *)

\* C1: on a tick of a flying Owl that holds an object while the player is
\* below, ungrab is called exactly once on that object and the reference is
\* empty when the tick returns; from then on the reference stays empty and
\* no operation grabs an object that has been released.
C1_DropOnPlayerBelow ==
  /\ (CarryingTick /\ PlayerBelow => ReleasedOnce)
  /\ (released # {} => carried_object = NULL)
  /\ held \cap released = {}
  /\ ObjectsOf(log, "grab") \cap released = {}

C1_Witness ==
  /\ CarryingTick
  /\ PlayerBelow
  /\ Count("ungrab") = 1
  /\ entry.carried_object \in released

-----------------------------------------------------------------------------
(* C2 *)

ReleasingHandlers == {"collision_squished", "freeze", "ignite", "kill_fall"}

\* C2: when squish, freeze, ignite or kill_fall returns, the reference is
\* empty; an object held at entry got exactly one ungrab during the handler
\* and is still registered in the sector; with nothing held, no ungrab.
C2_HandlersReleaseOnce ==
  last_op.name \in ReleasingHandlers =>
    /\ carried_object = NULL
    /\ (entry.carried_object # NULL =>
          ReleasedOnce /\ entry.carried_object \in sector_objects)
    /\ (entry.carried_object = NULL => Count("ungrab") = 0)

C2_Witness ==
  /\ Ran("collision_squished")
  /\ entry.carried_object # NULL
  /\ Count("ungrab") = 1
  /\ carried_object = NULL
  /\ entry.carried_object \in sector_objects

-----------------------------------------------------------------------------
(* C3 *)

FallingTransition ==
  {"play", "set_velocity_y", "set_acceleration_y", "enable_gravity", "set_state",
   "run_dead_script"}

\* C3 as stated: in squish, freeze and ignite the release of the carried
\* object (ungrab, then the reference cleared) is the first effect.
C3_ReleaseIsFirstEffect ==
  (last_op.name \in {"collision_squished", "freeze", "ignite"} /\ entry.carried_object # NULL)
    => /\ Len(log) >= 2
       /\ log[1].call = "ungrab"
       /\ log[2].call = "carried_object ="

\* C3 amended: in freeze and ignite the release is the first effect; in
\* squish the bounce of the nearest player, when there is one, comes first,
\* the release follows it directly and comes before every effect of the
\* falling transition.
C3_ReleaseBeforeTransition ==
  /\ (last_op.name \in {"freeze", "ignite"} /\ entry.carried_object # NULL)
       => /\ log[1].call = "ungrab"
          /\ log[2].call = "carried_object ="
  /\ (Ran("collision_squished") /\ entry.carried_object # NULL)
       => LET k == IF last_op.player # NoPlayer THEN 1 ELSE 0
          IN  /\ (k = 1 => log[1].call = "bounce")
              /\ log[k + 1].call = "ungrab"
              /\ log[k + 2].call = "carried_object ="
              /\ \A i \in DOMAIN log : log[i].call \in FallingTransition => i > k + 2

C3_Witness ==
  /\ Ran("collision_squished")
  /\ entry.carried_object # NULL
  /\ last_op.player # NoPlayer
  /\ log[1].call = "bounce"
  /\ log[2].call = "ungrab"
  /\ m_state = "STATE_FALLING"

-----------------------------------------------------------------------------
(* C4 *)

\* C4: when freeze runs with an object held, ungrab and the clearing of the
\* reference come before gravity is enabled and before the base class sets
\* the frozen flag, and from the moment gravity is enabled the reference is
\* empty in every state the handler goes through.
C4_FreezeReleasesBeforeGravity ==
  (Ran("freeze") /\ entry.carried_object # NULL) =>
    /\ ReleasedOnce
    /\ Count("enable_gravity") = 1
    /\ Count("BadGuy::freeze") = 1
    /\ Before("ungrab", "enable_gravity")
    /\ Before("carried_object =", "enable_gravity")
    /\ Before("carried_object =", "BadGuy::freeze")
    /\ \A i \in DOMAIN log :
         (\E j \in CallsOf(log, "enable_gravity") \cup CallsOf(log, "BadGuy::freeze") : j <= i)
           => log[i].after.carried_object = NULL

C4_Witness ==
  /\ Ran("freeze")
  /\ entry.carried_object # NULL
  /\ ~entry.gravity_enabled
  /\ gravity_enabled
  /\ m_frozen
  /\ carried_object = NULL

-----------------------------------------------------------------------------
(* C5 *)

\* C5: whenever the reference is non-empty, the Owl is neither frozen nor in
\* the falling state.
C5_CarriedOnlyWhileFlying ==
  carried_object # NULL => ~m_frozen /\ m_state # "STATE_FALLING"

C5_Witness ==
  /\ carried_object # NULL
  /\ ~m_frozen
  /\ m_state # "STATE_FALLING"
  /\ carried_object \in held

-----------------------------------------------------------------------------
(* C6 *)

-----------------------------------------------------------------------------
(* C7 *)

LateralHit == Ran("collision_solid") /\ ~entry.m_frozen /\ (last_op.hit.left \/ last_op.hit.right)

Turned == m_dir = Opposite(entry.m_dir) /\ velocity_x = (IF m_dir = "LEFT" THEN -120 ELSE 120)

\* C7 as stated: every solid collision of an Owl that is not frozen whose
\* hit has the left or the right flag set turns the Owl around.
C7_EveryLateralHitTurns == LateralHit => Turned

\* C7 amended: such a collision turns the Owl around when the hit has
\* neither the top nor the bottom flag set, whichever side was hit and
\* whichever way the Owl faced; with top or bottom set the direction and
\* the horizontal velocity stay as they were.
C7_PureLateralHitTurns ==
  LateralHit =>
    IF last_op.hit.top \/ last_op.hit.bottom
      THEN m_dir = entry.m_dir /\ velocity_x = entry.velocity_x
      ELSE Turned

C7_Witness ==
  /\ LateralHit
  /\ last_op.hit = [top |-> FALSE, bottom |-> FALSE, left |-> FALSE, right |-> TRUE]
  /\ entry.m_dir = "RIGHT"
  /\ entry.velocity_x = 120
  /\ m_dir = "LEFT"
  /\ velocity_x = -120

-----------------------------------------------------------------------------
(* C8 *)

VerticalHit == Ran("collision_solid") /\ (last_op.hit.top \/ last_op.hit.bottom)

Levelled == velocity_y = 0 /\ m_dir = entry.m_dir /\ velocity_x = entry.velocity_x

-----------------------------------------------------------------------------
(* C9 *)

\* the tick called grab once on the object held, at (x of the bottom centre
\* minus 16, bottom edge plus 3), with the Owl's direction, and kept it
GrabbedAtAnchor ==
  /\ Count("grab") = 1
  /\ Count("ungrab") = 0
  /\ \A i \in CallsOf(log, "grab") :
       /\ log[i].obj = entry.carried_object
       /\ log[i].pos = <<AnchorX, last_op.bbox.p2.y + 3>>
       /\ log[i].dir = entry.m_dir
  /\ carried_object = entry.carried_object
  /\ carried_object \in held

\* C9 as stated: every tick of a flying Owl that holds an object while the
\* player is not below grabs the object at the anchor and keeps it.
C9_EveryCarryingTickGrabs == (CarryingTick /\ ~PlayerBelow) => GrabbedAtAnchor

\* C9 amended: the same, for the ticks on which the anchor is not within 16
\* units of a level edge (16 < anchor x and anchor x + 16 < level width).
C9_CarryingTickGrabsInsideLevel ==
  (CarryingTick /\ ~PlayerBelow /\ 16 < AnchorX /\ AnchorX + 16 < LevelWidth)
    => GrabbedAtAnchor

C9_Witness ==
  /\ CarryingTick
  /\ ~PlayerBelow
  /\ last_op.player # NoPlayer
  /\ entry.carried_object \in held
  /\ GrabbedAtAnchor

-----------------------------------------------------------------------------
(* C10 *)

\* C10: on a tick of a flying Owl that holds an object while the player is
\* not below, the object is released (one ungrab, no grab, reference
\* cleared) when anchor x <= 16 or anchor x + 16 >= level width, and is
\* grabbed and kept for every anchor x strictly between.
C10_DropAtLevelEdge ==
  (CarryingTick /\ ~PlayerBelow) =>
    IF AnchorX <= 16 \/ AnchorX + 16 >= LevelWidth
      THEN ReleasedOnce
      ELSE Count("grab") = 1 /\ Count("ungrab") = 0 /\ carried_object = entry.carried_object

C10_Witness ==
  /\ CarryingTick
  /\ ~PlayerBelow
  /\ AnchorX + 16 = LevelWidth
  /\ ReleasedOnce

-----------------------------------------------------------------------------
(* C11 *)

\* the Owl's horizontal extent moved by the activation distance in the
\* direction of travel (left is towards smaller x)
AheadShift == IF entry.m_dir = "LEFT" THEN -ACTIVATION_DISTANCE ELSE ACTIVATION_DISTANCE

\* a nearest player exists, its top edge is at or below the Owl's bottom
\* edge, and its horizontal extent overlaps the moved extent of the Owl
PlayerInActivationZone ==
  /\ last_op.player # NoPlayer
  /\ last_op.player.p1.y >= last_op.bbox.p2.y
  /\ last_op.player.p1.x < last_op.bbox.p2.x + AheadShift
  /\ last_op.player.p2.x > last_op.bbox.p1.x + AheadShift

\* the player's box lies wholly ahead of the Owl's box in the direction of travel
PlayerAhead ==
  IF entry.m_dir = "LEFT"
    THEN last_op.player.p2.x < last_op.bbox.p1.x
    ELSE last_op.player.p1.x > last_op.bbox.p2.x

\* C11: on a tick of a flying Owl that holds an object away from the level
\* edges, the object is dropped exactly when a nearest player exists, its
\* top edge is at or below the Owl's bottom edge and its horizontal extent
\* overlaps the Owl's extent moved 128 units in the direction of travel;
\* whenever it is dropped the player is still ahead of the Owl, and with no
\* player nothing is dropped.
C11_DropExactlyInActivationZone ==
  (CarryingTick /\ 16 < AnchorX /\ AnchorX + 16 < LevelWidth) =>
    /\ (Count("ungrab") = 1) = PlayerInActivationZone
    /\ (Count("grab") = 1) = ~PlayerInActivationZone
    /\ PlayerBelow = PlayerInActivationZone
    /\ (Count("ungrab") = 1 => PlayerAhead)
    /\ (last_op.player = NoPlayer => Count("ungrab") = 0 /\ carried_object # NULL)

\* a right-flying Owl drops onto a player whose box just reaches into the
\* far end of the zone ahead
C11_Witness ==
  /\ CarryingTick
  /\ entry.m_dir = "RIGHT"
  /\ last_op.player # NoPlayer
  /\ last_op.player.p1.x = last_op.bbox.p2.x + ACTIVATION_DISTANCE - 1
  /\ last_op.player.p1.y = last_op.bbox.p2.y
  /\ Count("ungrab") = 1
  /\ carried_object = NULL

-----------------------------------------------------------------------------
(* C12 *)

\* initialize ran outside the editor and the factory made an entity that is
\* not a Portable
NotPortableMade == Ran("initialize") /\ ~last_op.editor /\ last_op.made = "not_portable"

\* C12 as stated: then the reference stays empty and the entity that was
\* made is registered in the sector.
C12_NotPortableStaysInWorld ==
  NotPortableMade =>
    /\ carried_object = NULL
    /\ created # {}
    /\ created \subseteq sector_objects

\* C12 amended: then the reference stays empty and the entity that was made
\* is not registered in the sector: it is destroyed when initialize returns.
C12_NotPortableIsDiscarded ==
  NotPortableMade =>
    /\ carried_object = NULL
    /\ Cardinality(created) = 1
    /\ ObjectsOf(log, "destroy") = created
    /\ Count("add_object") = 0
    /\ sector_objects = {}

C12_Witness ==
  /\ NotPortableMade
  /\ carried_object = NULL
  /\ created = {1}
  /\ sector_objects = {}

-----------------------------------------------------------------------------
(* C13 *)

\* C13: when initialize runs outside the editor and the factory makes a
\* Portable, that entity is registered in the sector and the reference
\* refers to it; a non-empty reference always refers to an entity that is
\* registered in the sector; at most one carried entity is ever made.
C13_CarriedIsRegistered ==
  /\ (Ran("initialize") /\ ~last_op.editor /\ last_op.made = "portable")
       => /\ carried_object # NULL
          /\ created = {carried_object}
          /\ ObjectsOf(log, "add_object") = {carried_object}
          /\ Count("destroy") = 0
  /\ (carried_object # NULL => carried_object \in sector_objects)
  /\ Cardinality(created) <= 1
  /\ Cardinality(sector_objects) <= 1

C13_Witness ==
  /\ Ran("active_update")
  /\ carried_object # NULL
  /\ carried_object \in held
  /\ sector_objects = {carried_object}

-----------------------------------------------------------------------------
(* C14 *)

\* C14: when initialize runs with the editor active, or the factory makes
\* nothing, no entity is registered, the reference stays empty and the Owl
\* has its flight configuration (horizontal velocity by direction, gravity
\* disabled); from then on no operation grabs or ungrabs anything.
C14_NothingMadeNothingCarried ==
  /\ (Ran("initialize") /\ (last_op.editor \/ last_op.made = "none"))
       => /\ created = {}
          /\ Count("add_object") = 0
          /\ velocity_x = (IF m_dir = "LEFT" THEN -120 ELSE 120)
          /\ ~gravity_enabled
  /\ (m_is_initialized /\ created = {})
       => /\ carried_object = NULL
          /\ sector_objects = {}
          /\ Count("grab") = 0
          /\ Count("ungrab") = 0
          /\ held = {}
          /\ released = {}

\* a tick of a flying Owl that was activated in the editor
C14_Witness ==
  /\ Ran("active_update")
  /\ m_is_initialized
  /\ created = {}
  /\ ~entry.m_frozen
  /\ ~gravity_enabled
  /\ log = <<>>

-----------------------------------------------------------------------------
(* C15 *)

\* C15: squish, freeze and ignite, run with an empty reference, call neither
\* ungrab nor grab, leave the reference empty and still do the rest of
\* their transition: the falling state for squish, gravity and the base
\* freeze for freeze, the base ignite for ignite.  A handler run right
\* after one of them therefore finds nothing to release.
C15_NothingCarriedNothingReleased ==
  (last_op.name \in {"collision_squished", "freeze", "ignite"} /\ entry.carried_object = NULL)
    => /\ Count("ungrab") = 0
       /\ Count("grab") = 0
       /\ Count("carried_object =") = 0
       /\ carried_object = NULL
       /\ (Ran("collision_squished")
             => /\ m_state = "STATE_FALLING"
                /\ gravity_enabled
                /\ velocity_y = 0
                /\ acceleration_y = 0
                /\ Count("run_dead_script") = 1)
       /\ (Ran("freeze")
             => /\ gravity_enabled
                /\ m_frozen
                /\ Count("BadGuy::freeze") = 1)
       /\ (Ran("ignite") => Count("BadGuy::ignite") = 1)

\* freeze run a second time, after the first one released the object
C15_Witness ==
  /\ Ran("freeze")
  /\ entry.m_frozen
  /\ entry.carried_object = NULL
  /\ released # {}
  /\ Count("ungrab") = 0
  /\ Count("BadGuy::freeze") = 1

-----------------------------------------------------------------------------
(* C16 *)

\* C16: when unfreeze returns the Owl is not frozen, its horizontal velocity
\* is FLYING_SPEED with the sign of its direction and gravity is disabled;
\* neither freeze nor unfreeze changes the direction, freeze leaves the
\* reference empty and unfreeze leaves it as it was, so that after freeze
\* and unfreeze the Owl flies the way it faced and carries nothing.
C16_UnfreezeRestoresFlight ==
  /\ Ran("unfreeze")
       => /\ ~m_frozen
          /\ velocity_x = (IF m_dir = "LEFT" THEN -120 ELSE 120)
          /\ ~gravity_enabled
          /\ m_dir = entry.m_dir
          /\ carried_object = entry.carried_object
          /\ Count("grab") = 0
  /\ Ran("freeze")
       => /\ m_dir = entry.m_dir
          /\ carried_object = NULL

\* unfreeze of a frozen Owl that the base class had stopped
C16_Witness ==
  /\ Ran("unfreeze")
  /\ entry.m_frozen
  /\ entry.gravity_enabled
  /\ entry.velocity_x = 0
  /\ entry.carried_object = NULL
  /\ released # {}
  /\ ~m_frozen
  /\ velocity_x # 0
  /\ carried_object = NULL

-----------------------------------------------------------------------------
(* C17 *)

\* C17: while the Owl is frozen a tick calls neither grab nor ungrab and
\* leaves the reference as it is, and a solid collision, whatever its hit
\* flags, is handed to the base class alone: the Owl sets neither its
\* direction nor a velocity.
C17_FrozenOwlIsSuspended ==
  /\ (Ran("active_update") /\ entry.m_frozen)
       => /\ Count("grab") = 0
          /\ Count("ungrab") = 0
          /\ carried_object = entry.carried_object
  /\ (Ran("collision_solid") /\ entry.m_frozen)
       => /\ m_dir = entry.m_dir
          /\ Count("m_dir =") = 0
          /\ Count("set_velocity_x") = 0
          /\ Count("set_velocity_y") = 0
          /\ Count("BadGuy::collision_solid") = 1
          /\ velocity_x \in {entry.velocity_x, 0}

\* a tick of a frozen Owl that holds a reference
C17_Witness ==
  /\ Ran("active_update")
  /\ entry.m_frozen
  /\ entry.carried_object # NULL
  /\ carried_object = entry.carried_object
  /\ log = <<>>

-----------------------------------------------------------------------------
(* C18 *)

\* C18: a squish by any entity triggers the bounce of that entity exactly
\* once, leaves vertical velocity and acceleration zero, gravity enabled and
\* the state falling, runs the dead script once and returns true.
C18_SquishBouncesSquisher ==
  Ran("collision_squished") =>
    /\ Count("bounce") = 1
    /\ last_op.object = "nearest_player"
    /\ velocity_y = 0
    /\ acceleration_y = 0
    /\ gravity_enabled
    /\ m_state = "STATE_FALLING"
    /\ Count("run_dead_script") = 1
    /\ Count("return true") = 1

-----------------------------------------------------------------------------
(* C19 *)

\* the value of the reference right before effect i of the log
ReferenceBefore(i) == IF i = 1 THEN entry.carried_object ELSE log[i - 1].after.carried_object

\* every assignment to the reference made while it referred to an entity
\* came right after ungrab on that entity
AssignedAfterUngrab ==
  \A i \in CallsOf(log, "carried_object =") :
    ReferenceBefore(i) # NULL =>
      /\ i > 1
      /\ log[i - 1].call = "ungrab"
      /\ log[i - 1].obj = ReferenceBefore(i)

\* no entity is left grabbed or unreleased once the Owl has lost it
NothingLeftGrabbed ==
  /\ held \subseteq {carried_object}
  /\ sector_objects \subseteq released \cup {carried_object}

\* C19 as stated: under any sequence of operations, a repeated initialize
\* included, the reference is never cleared or overwritten while it refers
\* to an entity on which ungrab has not been called, and no entity is left
\* grabbed.
C19_ReferenceNeverLostWithoutUngrab == AssignedAfterUngrab /\ NothingLeftGrabbed

\* C19 amended: the same for every operation but a repeated initialize:
\* the handlers other than initialize assign the reference only right after
\* ungrab, and as long as initialize has made at most one entity no entity
\* is left grabbed.
C19_HandlersNeverLoseWithoutUngrab ==
  /\ (last_op.name # "initialize" => AssignedAfterUngrab)
  /\ (Cardinality(created) <= 1 => AssignedAfterUngrab /\ NothingLeftGrabbed)

\* the edge of the level takes the object the Owl held
C19_Witness ==
  /\ CarryingTick
  /\ entry.carried_object \in released
  /\ Count("ungrab") = 1
  /\ held = {}
  /\ carried_object = NULL
  /\ ~PlayerBelow

-----------------------------------------------------------------------------
(* C20 *)

\* the operations a dead Owl may still receive
AfterDeath == {"freeze", "unfreeze", "ignite", "collision_solid", "active_update"}

\* the handler was entered by an Owl that had been killed
EnteredDead ==
  /\ entry.m_state = "STATE_FALLING"
  /\ entry.gravity_enabled
  /\ entry.carried_object = NULL

\* C20: once the Owl is dead (falling, gravity enabled, nothing carried), a
\* later freeze, unfreeze, ignite, collision or tick leaves gravity enabled
\* and the carried reference empty.
C20_DeadOwlKeepsFalling ==
  (last_op.name \in AfterDeath /\ EnteredDead) =>
    /\ gravity_enabled
    /\ carried_object = NULL

====
